---- MODULE Spec2Model ----
(***************************************************************************)
(* The pattern compiler of RNGzus: the random source, the node taxonomy    *)
(* (generation and lowering), the parser with its context stack, and the   *)
(* parseRepl turn.  The repository holds two near-duplicate copies of the  *)
(* compiler, src/genpass.js and src/unnamed/part_001; the variable `copy`  *)
(* says which one runs, and every place where they differ is a branch on   *)
(* it.                                                                     *)
(*                                                                         *)
(* A character is a one-character string, a text is a sequence of          *)
(* characters (the backtick, which a TLA+ string cannot hold, is written  *)
(* "\\x60").  JavaScript's undefined and NaN are the values Undefined and   *)
(* NaN below.                                                              *)
(***************************************************************************)
EXTENDS Integers, Sequences, FiniteSets, TLC

VARIABLES
  copy,          \* which copy of the source runs: "genpass.js" or "part_001"
  phase,         \* where the turn is: prompt, parsing, parsed, failed, replied, processed
  input,         \* Parser.input
  current,       \* Parser.current
  contextStack,  \* Parser.contextStack; the children of frame 1 are Parser.children
  error,         \* the exception Parser.parse threw, or NoError
  tree,          \* the RootNode parse returned, or NoTree
  generated,     \* <<outcome>> of tree.process(), or <<>>
  reply,         \* <<the pair parseRepl returned>>, or <<>>
  draw,          \* the last direct call of randRange or sample, or NoDraw
  previous,      \* how the turn before this one ended, "none" before the first
  console        \* window.tinyConsole and the line being edited in the page

vars == <<copy, phase, input, current, contextStack, error, tree, generated, reply, draw,
          previous, console>>

(***************************************************************************)
(* Bounds of the model.                                                    *)
(***************************************************************************)
\* the most fragments a pattern line is made of
MaxFrags == 3
\* the entropy words drawn are k * 0xffffffff / EntropySteps, k = 0..EntropySteps
EntropySteps == 3
\* the largest min, max and collection length of a direct randRange / sample call
MaxRange == 5
\* the most entries the command history of the browser terminal grows to
MaxInputs == 3
\* the most lines handed over with Enter in the browser terminal
MaxEnters == 3

(***************************************************************************)
(* JavaScript values.                                                      *)
(***************************************************************************)
Undefined == "undefined"
NaN == -1000000
Copies == {"genpass.js", "part_001"}

Ascii ==
  << " ", "!", "\"", "#", "$", "%", "&", "'", "(", ")", "*", "+", ",", "-", ".", "/",
     "0", "1", "2", "3", "4", "5", "6", "7", "8", "9", ":", ";", "<", "=", ">", "?",
     "@", "A", "B", "C", "D", "E", "F", "G", "H", "I", "J", "K", "L", "M", "N", "O",
     "P", "Q", "R", "S", "T", "U", "V", "W", "X", "Y", "Z", "[", "\\", "]", "^", "_",
     "\\x60", "a", "b", "c", "d", "e", "f", "g", "h", "i", "j", "k", "l", "m", "n", "o",
     "p", "q", "r", "s", "t", "u", "v", "w", "x", "y", "z", "{", "|", "}", "~" >>

FirstPrintable == 32

\* String.prototype.charCodeAt(0); NaN on the empty string
charCodeAt(s) ==
  IF s = <<>> THEN NaN
  ELSE (FirstPrintable - 1) + (CHOOSE i \in 1..Len(Ascii) : Ascii[i] = s[1])

\* String.fromCharCode(code): one character; a code outside the printable
\* ASCII block is written "\\u<code>", NaN converts to code 0
fromCharCode(code) ==
  IF code = NaN THEN "\\u0"
  ELSE IF code >= FirstPrintable /\ code < FirstPrintable + Len(Ascii)
       THEN Ascii[code - FirstPrintable + 1]
       ELSE "\\u" \o ToString(code)

Digits == <<"0", "1", "2", "3", "4", "5", "6", "7", "8", "9">>
IsDigit(c) == \E i \in 1..Len(Digits) : Digits[i] = c
DigitValue(c) == (CHOOSE i \in 1..Len(Digits) : Digits[i] = c) - 1

RECURSIVE natToString(_)
natToString(n) ==
  IF n < Len(Digits) THEN <<Digits[n + 1]>>
  ELSE natToString(n \div Len(Digits)) \o <<Digits[(n % Len(Digits)) + 1]>>

\* Number.prototype.toString()
toString(n) ==
  IF n = NaN THEN <<"N", "a", "N">>
  ELSE IF n < 0 THEN <<"-">> \o natToString(-n)
  ELSE natToString(n)

RECURSIVE trimStart(_)
trimStart(s) == IF s # <<>> /\ s[1] = " " THEN trimStart(Tail(s)) ELSE s

RECURSIVE digitPrefix(_)
digitPrefix(s) ==
  IF s # <<>> /\ IsDigit(s[1]) THEN <<s[1]>> \o digitPrefix(Tail(s)) ELSE <<>>

RECURSIVE digitsValue(_, _)
digitsValue(s, acc) ==
  IF s = <<>> THEN acc
  ELSE digitsValue(Tail(s), acc * Len(Digits) + DigitValue(s[1]))

\* parseInt(text) in radix 10: leading blanks, an optional sign, the longest
\* run of digits; NaN when there is no digit.
\* (The patterns of the model hold no "0x" prefix.)
parseInt(s) ==
  LET t    == trimStart(s)
      neg  == t # <<>> /\ t[1] = "-"
      body == IF t # <<>> /\ t[1] \in {"-", "+"} THEN Tail(t) ELSE t
      ds   == digitPrefix(body)
  IN  IF ds = <<>> THEN NaN
      ELSE IF neg THEN 0 - digitsValue(ds, 0) ELSE digitsValue(ds, 0)

\* isNaN(text): Number(text) is NaN.  Number() of a blank text is 0; of a
\* decimal literal (sign, digits, at most one point, at least one digit) its
\* value; anything else over the model's characters is NaN.
isNaN(s) ==
  LET t    == trimStart(s)
      body == IF t # <<>> /\ t[1] \in {"-", "+"} THEN Tail(t) ELSE t
      ip   == digitPrefix(body)
      rest == SubSeq(body, Len(ip) + 1, Len(body))
      fp   == IF rest # <<>> /\ rest[1] = "." THEN digitPrefix(Tail(rest)) ELSE <<>>
      used == Len(ip) + (IF rest # <<>> /\ rest[1] = "." THEN 1 + Len(fp) ELSE 0)
  IN  IF t = <<>> THEN FALSE
      ELSE ~ (used = Len(body) /\ Len(ip) + Len(fp) >= 1)

\* text.split("-"): the pieces between the dashes
RECURSIVE split(_, _)
split(s, piece) ==
  IF s = <<>> THEN <<piece>>
  ELSE IF s[1] = "-" THEN <<piece>> \o split(Tail(s), <<>>)
  ELSE split(Tail(s), Append(piece, s[1]))

(***************************************************************************)
(* Uniform random source.  The entropy word is an unsigned 32-bit integer, *)
(* held as two 16-bit limbs <<hi, lo>> so that the arithmetic stays exact. *)
(***************************************************************************)
LimbBase == 65536
LimbMax == 65535
\* 0xffffffff, the divisor of randRange
EntropyMax == <<LimbMax, LimbMax>>

\* the limbs, normalised, of word * k  (k >= 0)
limbTimes(word, k) ==
  LET low == word[2] * k
  IN  <<word[1] * k + (low \div LimbBase), low % LimbBase>>

limbLess(x, y) == x[1] < y[1] \/ (x[1] = y[1] /\ x[2] < y[2])
limbLeq(x, y) == ~ limbLess(y, x)

\* Math.floor(word / 0xffffffff * range)
floorScaled(word, range) ==
  IF range >= 0
  THEN Cardinality({k \in 1..range :
                      limbLeq(limbTimes(EntropyMax, k), limbTimes(word, range))})
  ELSE 0 - Cardinality({k \in 0..(0 - range) :
                      limbLess(limbTimes(EntropyMax, k), limbTimes(word, 0 - range))})

randRange(min, max, word) ==
  IF min = NaN \/ max = NaN THEN NaN
  ELSE min + floorScaled(word, max - min)

\* the entropy words the model draws: 0, 0xffffffff and evenly spaced ones
EntropyWords ==
  {limbTimes(<<1, 1>>, (k * LimbMax) \div EntropySteps) : k \in 0..EntropySteps}

\* sample(input) picks input[randRange(0, input.length)]: the index picked
\* (zero-based), and whether it lies inside the collection
sampleIndex(coll, word) == randRange(0, Len(coll), word)
inside(coll, i) == i >= 0 /\ i < Len(coll)

\* sample(text): a character of the text, undefined past its end
sample(text, word) ==
  LET i == sampleIndex(text, word)
  IN  IF inside(text, i) THEN text[i + 1] ELSE Undefined

(***************************************************************************)
(* AST nodes.  Every node is a record of the same shape; the fields a      *)
(* class does not have keep their defaults.                                *)
(***************************************************************************)
\* TreeNode.constructor: count = 1
TreeNode(type) ==
  [type |-> type, count |-> 1, literal |-> <<>>, sampleSet |-> <<>>,
   start |-> 0, end |-> 0, children |-> <<>>, sequential |-> FALSE]

setCount(node, count) == [node EXCEPT !.count = count]

LiteralNode(literal) == [TreeNode("LiteralNode") EXCEPT !.literal = literal]

GroupNode(children, sequential) ==
  [TreeNode("GroupNode") EXCEPT !.children = children, !.sequential = sequential]

RootNode(children) == [GroupNode(children, TRUE) EXCEPT !.type = "RootNode"]

SampleNode(sampleSet) == [TreeNode("SampleNode") EXCEPT !.sampleSet = sampleSet]

AnyNode == TreeNode("AnyNode")

LowerAlphabet ==
  <<"a", "b", "c", "d", "e", "f", "g", "h", "i", "j", "k", "l", "m",
    "n", "o", "p", "q", "r", "s", "t", "u", "v", "w", "x", "y", "z">>
UpperAlphabet ==
  <<"A", "B", "C", "D", "E", "F", "G", "H", "I", "J", "K", "L", "M",
    "N", "O", "P", "Q", "R", "S", "T", "U", "V", "W", "X", "Y", "Z">>

AlphaNode(uppercase) ==
  [SampleNode(IF uppercase THEN UpperAlphabet ELSE LowerAlphabet)
     EXCEPT !.type = "AlphaNode"]

NumericNode == TreeNode("NumericNode")

SymbolSet ==
  <<"!", "@", "#", "$", "%", "^", "&", "*", "(", ")", "_", "+", "-", "=", "[",
    "]", "{", "}", "|", ";", ":", "'", "\"", ",", ".", "<", ">", "?">>
SymbolNode == [SampleNode(SymbolSet) EXCEPT !.type = "SymbolNode"]

BasicSymbolSet == <<"!", "@", "#", "$", "%", "^", "&", "*", "?">>
BasicSymbolNode == [SampleNode(BasicSymbolSet) EXCEPT !.type = "BasicSymbolNode"]

\* NaN + 1 is NaN
plusOne(n) == IF n = NaN THEN NaN ELSE n + 1

\* RangeNode.constructor: the end is stored exclusive
RangeNode(start, end) ==
  [TreeNode("RangeNode") EXCEPT !.start = start, !.end = plusOne(end)]

\* AsciiRangeNode.constructor, for two defined texts
AsciiRangeNode(start, end) ==
  [RangeNode(charCodeAt(start), charCodeAt(end)) EXCEPT !.type = "AsciiRangeNode"]

(***************************************************************************)
(* Parser.  A parser state p is the record of the Parser object's fields   *)
(* (input, current, contextStack) and the exception thrown, if any.        *)
(***************************************************************************)
NoError == [kind |-> "none", message |-> "", index |-> 0]

\* new ParseError(message, index)
ParseError(message, index) ==
  [kind |-> "ParseError", message |-> message, index |-> index]

\* a TypeError of the runtime: its index field is undefined, written NaN
\* (undefined + 4 is NaN)
TypeError(message) == [kind |-> "TypeError", message |-> message, index |-> NaN]

\* new ParseContext(endToken, nodeType, ...instantiationArgs); the node type
\* is GroupNode at every call
ParseContext(endToken, instantiationArgs) ==
  [endToken |-> endToken, instantiationArgs |-> instantiationArgs,
   children |-> <<>>]

\* ParseContext.finalize dropping the instantiation arguments: every group
\* is built with the default sequential = false
finalizeSampled(context) == GroupNode(context.children, FALSE)

\* ParseContext.finalize: new GroupNode(children, ...instantiationArgs), the
\* sequential parameter defaulting to false
finalize(context) ==
  GroupNode(context.children,
            IF Len(context.instantiationArgs) >= 1
            THEN context.instantiationArgs[1] ELSE FALSE)

\* this.input[i], undefined past the end
charAt(inp, i) == IF i >= 0 /\ i < Len(inp) THEN inp[i + 1] ELSE Undefined

currentContext(p) == p.contextStack[Len(p.contextStack)]
currentNodeSet(p) == currentContext(p).children

\* Parser.push: append to the children of the innermost frame
push(p, node) ==
  [p EXCEPT !.contextStack[Len(p.contextStack)].children = Append(@, node)]

\* Parser.pushContext putting the new frame in the place of the current one
pushContextReplacing(p, endToken, instantiationArgs) ==
  [p EXCEPT !.contextStack =
     Append(SubSeq(@, 1, Len(@) - 1), ParseContext(endToken, instantiationArgs))]

\* Parser.pushContext
pushContext(p, endToken, instantiationArgs) ==
  [p EXCEPT !.contextStack = Append(@, ParseContext(endToken, instantiationArgs))]

\* Parser.popContext dropping every open group at once: only the outermost
\* frame is left
popContextAll(p) ==
  [p EXCEPT !.contextStack = SubSeq(@, 1, 1)]

\* Parser.popContext: the stack without its top frame (the finalized node
\* is finalize(currentContext(p)))
popContext(p) ==
  [p EXCEPT !.contextStack = SubSeq(@, 1, Len(@) - 1)]

throw(p, err) == [p EXCEPT !.error = err]

\* the text appended by `output += token`
appended(token) ==
  IF token = Undefined
  THEN <<"u", "n", "d", "e", "f", "i", "n", "e", "d">>
  ELSE <<token>>

\* the message of consumeUntil's ParseError
eofMessage(endTokens) ==
  "Expected " \o
  (IF Len(endTokens) > 1
   THEN " one of ('" \o endTokens[1] \o "', '" \o endTokens[2] \o "')"
   ELSE " '" \o endTokens[1] \o "'")
  \o " but got EOF"

\* the loop of Parser.consumeUntil without its backslash branch: a backslash
\* is a character like any other and the character after it can end the scan
RECURSIVE consumeLoopPlain(_, _, _, _, _)
consumeLoopPlain(inp, cur, endTokens, output, t) ==
  IF \E i \in 1..Len(endTokens) : endTokens[i] = t
  THEN [error |-> NoError, output |-> output, t |-> t, current |-> cur]
  ELSE IF t = Undefined
  THEN [error |-> ParseError(eofMessage(endTokens), cur - 1),
        output |-> output, t |-> t, current |-> cur]
  ELSE consumeLoopPlain(inp, cur + 1, endTokens, Append(output, t), charAt(inp, cur))

\* the loop of Parser.consumeUntil: t is the token last read, cur the
\* position after it
RECURSIVE consumeLoop(_, _, _, _, _)
consumeLoop(inp, cur, endTokens, output, t) ==
  IF \E i \in 1..Len(endTokens) : endTokens[i] = t
  THEN [error |-> NoError, output |-> output, t |-> t, current |-> cur]
  ELSE IF t = Undefined
  THEN [error |-> ParseError(eofMessage(endTokens), cur - 1),
        output |-> output, t |-> t, current |-> cur]
  ELSE IF t = "\\"
  THEN consumeLoop(inp, cur + 2, endTokens,
                   output \o appended(charAt(inp, cur)), charAt(inp, cur + 1))
  ELSE consumeLoop(inp, cur + 1, endTokens, Append(output, t), charAt(inp, cur))

consumeUntil(p, endTokens) ==
  consumeLoop(p.input, p.current + 1, endTokens, <<>>, charAt(p.input, p.current))

\* Parser.lastNode: the last child of the innermost frame in part_001, the
\* last child of the outermost frame (this.children) in genpass.js
lastNodeFrame(p, cp) == IF cp = "genpass.js" THEN 1 ELSE Len(p.contextStack)

hasLastNode(p, cp) == p.contextStack[lastNodeFrame(p, cp)].children # <<>>

\* this.lastNode.setCount(num)
setLastCount(p, cp, num) ==
  LET f == lastNodeFrame(p, cp)
      n == Len(p.contextStack[f].children)
  IN  [p EXCEPT !.contextStack[f].children[n] = setCount(@, num)]

\* the repeat-modifier case of parseToken; q is the state after the "<"
repeatModifier(q, cp, head) ==
  LET r  == consumeUntil(q, <<">">>)
      q1 == [q EXCEPT !.current = r.current]
      num == parseInt(r.output)
  IN  IF r.error.kind # "none" THEN throw(q1, r.error)
      ELSE IF num = NaN
      THEN throw(q1, ParseError("Repeat modifier must be a number", head))
      ELSE IF ~ hasLastNode(q1, cp)
      THEN throw(q1, TypeError("Cannot read properties of undefined (reading 'setCount')"))
      ELSE setLastCount(q1, cp, num)

\* one segment of a range block: the node pushed for the text start-end
rangeSegment(q, rangeStr) ==
  LET parts == split(rangeStr, <<>>)
      start == parts[1]
      hasEnd == Len(parts) >= 2
  IN  IF isNaN(start)
      THEN IF hasEnd
           THEN push(q, AsciiRangeNode(start, parts[2]))
           ELSE throw(q, TypeError("Cannot read properties of undefined (reading 'charCodeAt')"))
      ELSE push(q, RangeNode(parseInt(start),
                             IF hasEnd THEN parseInt(parts[2]) ELSE NaN))

\* the do-while loop of the range case
RECURSIVE rangeLoop(_)
rangeLoop(q) ==
  LET r  == consumeUntil(q, <<":", ";">>)
      q1 == [q EXCEPT !.current = r.current]
      q2 == rangeSegment(q1, r.output)
  IN  IF r.error.kind # "none" THEN throw(q1, r.error)
      ELSE IF q2.error.kind # "none" THEN q2
      ELSE IF r.t # ";" THEN rangeLoop(q2)
      ELSE q2

\* the range case of parseToken without the test on the number of segments:
\* the group of the block is pushed whatever it holds
rangeBlockWrapped(q) ==
  LET q1 == rangeLoop(pushContext(q, Undefined, <<>>))
  IN  IF q1.error.kind # "none" THEN q1
      ELSE push(popContext(q1), finalize(currentContext(q1)))

\* the range case of parseToken; q is the state after the ":"
rangeBlock(q) ==
  LET q1 == rangeLoop(pushContext(q, Undefined, <<>>))
      groupNode == finalize(currentContext(q1))
  IN  IF q1.error.kind # "none" THEN q1
      ELSE IF Len(groupNode.children) > 1
      THEN push(popContext(q1), groupNode)
      ELSE push(popContext(q1), groupNode.children[1])

\* the literal and sample-set cases of parseToken
scanned(q, endToken, sampleSet) ==
  LET r  == consumeUntil(q, <<endToken>>)
      q1 == [q EXCEPT !.current = r.current]
  IN  IF r.error.kind # "none" THEN throw(q1, r.error)
      ELSE push(q1, IF sampleSet THEN SampleNode(r.output) ELSE LiteralNode(r.output))

\* Parser.peek(): the token is read and the position stays where it is
peek(p) == p

\* Parser.advance(): the token is read and the position moves past it
advance(p) == [p EXCEPT !.current = @ + 1]

\* a switch of parseToken with a default case that keeps the character read
\* as a literal of its own
fallThroughLiteral(q) == push(q, LiteralNode(<<charAt(q.input, q.current - 1)>>))

\* the switch of parseToken when no case matches the token: it has no
\* default case, so the token is dropped
fallThrough(q) == q

\* Parser.parseToken, for the copy cp of the source
parseToken(p, cp) ==
  LET head  == p.current
      token == charAt(p.input, p.current)
      q     == advance(p)
  IN  IF token = currentContext(q).endToken
      THEN push(popContext(q), finalize(currentContext(q)))
      ELSE CASE token = "."  -> push(q, AnyNode)
             [] token = "a"  -> push(q, AlphaNode(FALSE))
             [] token = "A"  -> push(q, AlphaNode(TRUE))
             [] token = "#"  -> push(q, NumericNode)
             [] token = "@"  -> push(q, SymbolNode)
             [] token = "$"  -> push(q, BasicSymbolNode)
             [] token = "\"" -> scanned(q, "\"", FALSE)
             [] token = "["  -> scanned(q, "]", TRUE)
             [] token = "<"  -> repeatModifier(q, cp, head)
             [] token = ":"  -> rangeBlock(q)
             [] token = "("  -> pushContext(q, ")", <<TRUE>>)
             [] token = "{"  -> pushContext(q, "}", <<FALSE>>)
             [] OTHER        -> fallThrough(q)

\* the first lines of Parser.parse without the reset of the context stack:
\* the frames that the parse before left are still there
newParserKeepingStack(str) ==
  [input |-> str, current |-> 0, contextStack |-> contextStack, error |-> NoError]

\* the first lines of Parser.parse: a fresh parser over str
newParser(str) ==
  [input |-> str, current |-> 0,
   contextStack |-> <<ParseContext(Undefined, <<TRUE>>)>>, error |-> NoError]

\* the end of Parser.parse naming the close token of the outermost open
\* group instead of the innermost one
parseEndOutermost(p) ==
  IF Len(p.contextStack) > 1
  THEN throw(p, ParseError("Expected '" \o p.contextStack[2].endToken \o "' but got EOF",
                           p.current))
  ELSE p

\* the end of Parser.parse, once the input is exhausted
parseEnd(p) ==
  IF Len(p.contextStack) > 1
  THEN throw(p, ParseError("Expected '" \o currentContext(p).endToken \o "' but got EOF",
                           p.current))
  ELSE p

\* Parser.parse as a whole: the parser state at the return or the throw
RECURSIVE parse(_, _)
parse(p, cp) ==
  IF p.error.kind # "none" THEN p
  ELSE IF p.current < Len(p.input) THEN parse(parseToken(p, cp), cp)
  ELSE parseEnd(p)

(***************************************************************************)
(* Generation.  An outcome is what a call returns or throws: a text, the   *)
(* value undefined, or an exception.  generateSet and processSet are the   *)
(* sets of outcomes over every choice of the entropy words drawn.          *)
(***************************************************************************)
Ok(text) == [ok |-> TRUE, undef |-> FALSE, text |-> text, message |-> ""]
Undef == [ok |-> TRUE, undef |-> TRUE, text |-> <<>>, message |-> ""]
Fault(message) == [ok |-> FALSE, undef |-> FALSE, text |-> <<>>, message |-> message]

\* a character or undefined, as an outcome
charOutcome(c) == IF c = Undefined THEN Undef ELSE Ok(<<c>>)

\* Array.prototype.join: an undefined element contributes the empty text
joined(o) == IF o.undef THEN Ok(<<>>) ELSE o

\* a + b on two outcomes evaluated in this order
cat(a, b) ==
  IF ~ a.ok THEN a ELSE IF ~ b.ok THEN b ELSE Ok(a.text \o b.text)

catSets(A, B) == {cat(a, b) : a \in A, b \in B}

\* the outcomes of n evaluations of S, joined
RECURSIVE repeatSet(_, _)
repeatSet(S, n) ==
  IF n <= 0 THEN {Ok(<<>>)}
  ELSE catSets({joined(o) : o \in S}, repeatSet(S, n - 1))

SampleTypes == {"SampleNode", "AlphaNode", "SymbolNode", "BasicSymbolNode"}
GroupTypes == {"GroupNode", "RootNode"}

\* SampleNode.generate with the entropy word w
sampleGenerate(node, w) == charOutcome(sample(node.sampleSet, w))

\* AnyNode.generate
anyGenerate(w) == Ok(<<fromCharCode(randRange(32, 127, w))>>)

\* NumericNode.generate
numericGenerate(w) == Ok(toString(randRange(0, 10, w)))

\* RangeNode.generate
rangeGenerate(node, w) == Ok(toString(randRange(node.start, node.end, w)))

\* AsciiRangeNode.generate left as the inherited RangeNode.generate: the
\* decimal text of the code instead of the character
asciiRangeGenerateDecimal(node, w) == rangeGenerate(node, w)

\* AsciiRangeNode.generate: String.fromCharCode(parseInt(super.generate()))
asciiRangeGenerate(node, w) ==
  Ok(<<fromCharCode(parseInt(rangeGenerate(node, w).text))>>)

RECURSIVE generateSet(_)
RECURSIVE processSet(_)
RECURSIVE processAll(_)
RECURSIVE processAllReversed(_)

\* the children's outcomes joined last child first
processAllReversed(children) ==
  IF children = <<>> THEN {Ok(<<>>)}
  ELSE catSets(processAllReversed(Tail(children)), processSet(Head(children)))

\* the joined outcomes of children.map(token => token.process())
processAll(children) ==
  IF children = <<>> THEN {Ok(<<>>)}
  ELSE catSets(processSet(Head(children)), processAll(Tail(children)))

\* <Class>.generate()
generateSet(node) ==
  CASE node.type = "LiteralNode" -> {Ok(node.literal)}
    [] node.type \in SampleTypes -> {sampleGenerate(node, w) : w \in EntropyWords}
    [] node.type = "AnyNode" -> {anyGenerate(w) : w \in EntropyWords}
    [] node.type = "NumericNode" -> {numericGenerate(w) : w \in EntropyWords}
    [] node.type = "RangeNode" -> {rangeGenerate(node, w) : w \in EntropyWords}
    [] node.type = "AsciiRangeNode" -> {asciiRangeGenerate(node, w) : w \in EntropyWords}
    [] node.type \in GroupTypes ->
         IF node.sequential THEN processAll(node.children)
         ELSE UNION {LET i == sampleIndex(node.children, w)
                     IN  IF inside(node.children, i)
                         THEN processSet(node.children[i + 1])
                         ELSE {Fault("Cannot read properties of undefined (reading 'process')")} :
                     w \in EntropyWords}

\* TreeNode.process(): Array(count).fill(0).map(_ => generate()).join("")
processSet(node) ==
  IF node.count < 0 THEN {Fault("Invalid array length")}
  ELSE repeatSet(generateSet(node), node.count)

hasOk(S) == \E o \in S : o.ok

\* the argument pairs <<min, max>> of the randRange calls that a call of
\* process() on the node can make
RECURSIVE generateCalls(_)
RECURSIVE processCalls(_)

generateCalls(node) ==
  CASE node.type = "LiteralNode" -> {}
    [] node.type \in SampleTypes -> {<<0, Len(node.sampleSet)>>}
    [] node.type = "AnyNode" -> {<<32, 127>>}
    [] node.type = "NumericNode" -> {<<0, 10>>}
    [] node.type \in {"RangeNode", "AsciiRangeNode"} -> {<<node.start, node.end>>}
    [] node.type \in GroupTypes ->
         IF node.sequential
         THEN UNION {processCalls(node.children[i]) :
                       i \in {k \in 1..Len(node.children) :
                                \A j \in 1..(k - 1) : hasOk(processSet(node.children[j]))}}
         ELSE {<<0, Len(node.children)>>}
              \cup UNION {processCalls(node.children[i]) : i \in 1..Len(node.children)}

processCalls(node) == IF node.count <= 0 THEN {} ELSE generateCalls(node)

(***************************************************************************)
(* Lowering.  The source text a node compiles to is held as an expression  *)
(* tree (one record shape); the text between the quotes of a string        *)
(* literal is held character by character.                                 *)
(***************************************************************************)
Expr(op) == [op |-> op, n |-> 0, args |-> <<>>, text |-> <<>>, min |-> 0, max |-> 0]

\* "<text>"
StringLit(text) == [Expr("string") EXCEPT !.text = text]
\* randRange(min,max)
RandRangeCall(min, max) == [Expr("randRange") EXCEPT !.min = min, !.max = max]
\* <arg>.toString()
ToStringCall(arg) == [Expr("toString") EXCEPT !.args = <<arg>>]
\* String.fromCharCode(<arg><tail>): tail is what is left of the text
\* ".toString()" between the argument and the closing parenthesis
FromCharCodeCall(arg, tail) == [Expr("fromCharCode") EXCEPT !.args = <<arg>>, !.text = tail]
\* sample(<arg>)
SampleCall(arg) == [Expr("sample") EXCEPT !.args = <<arg>>]
\* [<e1>,<e2>,...]
ArrayLit(elems) == [Expr("array") EXCEPT !.args = elems]
\* <array>.join('')
JoinCall(array) == [Expr("join") EXCEPT !.args = <<array>>]
\* Array(<n>).fill(0).map(_=><body>).join('')
RepeatCall(n, body) == [Expr("repeat") EXCEPT !.n = n, !.args = <<body>>]

\* text.replace(/\\/g, '\\\\')
RECURSIVE escapeBackslashes(_)
escapeBackslashes(text) ==
  IF text = <<>> THEN <<>>
  ELSE (IF text[1] = "\\" THEN <<"\\", "\\">> ELSE <<text[1]>>)
       \o escapeBackslashes(Tail(text))

\* text.replace(/"/g, '\\"')
RECURSIVE escapeQuotes(_)
escapeQuotes(text) ==
  IF text = <<>> THEN <<>>
  ELSE (IF text[1] = "\"" THEN <<"\\", "\"">> ELSE <<text[1]>>)
       \o escapeQuotes(Tail(text))

\* text.replace(/\\/g, '\\\\').replace(/"/g, '\\"')
escape(text) == escapeQuotes(escapeBackslashes(text))

\* the text ".toString()" that ends RangeNode's source
ToStringSuffix == <<".", "t", "o", "S", "t", "r", "i", "n", "g", "(", ")">>

\* the number of characters AsciiRangeNode cuts from the end of that source
cutLength(cp) == IF cp = "genpass.js" THEN 10 ELSE 11

RECURSIVE compile(_, _)
RECURSIVE compileAll(_, _)

\* children.map(x => x.compile())
compileAll(children, cp) ==
  IF children = <<>> THEN <<>>
  ELSE <<compile(Head(children), cp)>> \o compileAll(Tail(children), cp)

\* <Class>.compileSingle() in part_001, <Class>.compile() in genpass.js
compileSingle(node, cp) ==
  CASE node.type = "LiteralNode" -> StringLit(escape(node.literal))
    [] node.type \in SampleTypes -> SampleCall(StringLit(escape(node.sampleSet)))
    [] node.type = "AnyNode" -> FromCharCodeCall(RandRangeCall(32, 172), <<>>)
    [] node.type = "NumericNode" -> ToStringCall(RandRangeCall(0, 10))
    [] node.type = "RangeNode" -> ToStringCall(RandRangeCall(node.start, node.end))
    [] node.type = "AsciiRangeNode" ->
         FromCharCodeCall(RandRangeCall(node.start, node.end),
                          SubSeq(ToStringSuffix, 1, Len(ToStringSuffix) - cutLength(cp)))
    [] node.type \in GroupTypes ->
         IF node.sequential
         THEN JoinCall(ArrayLit(compileAll(node.children, cp)))
         ELSE SampleCall(ArrayLit(compileAll(node.children, cp)))

\* TreeNode.compile() of part_001 wraps a count above 1; genpass.js has no
\* such method, each class's compile() is the bare expression
compile(node, cp) ==
  IF cp = "part_001" /\ node.count > 1
  THEN RepeatCall(node.count, compileSingle(node, cp))
  ELSE compileSingle(node, cp)

(***************************************************************************)
(* eval(compiled): the outcomes of evaluating the lowered expression.      *)
(***************************************************************************)
\* the value of the string literal whose source text is given; a backslash
\* makes the next character literal (escape() emits no other escape)
RECURSIVE unescape(_)
unescape(text) ==
  IF text = <<>> THEN <<>>
  ELSE IF text[1] = "\\" /\ Len(text) >= 2
       THEN <<text[2]>> \o unescape(SubSeq(text, 3, Len(text)))
       ELSE <<text[1]>> \o unescape(Tail(text))

\* the characters that end a line of source text
LineTerminators == {"\n", "\r"}

\* the text can stand between two double quotes of source text: read from
\* the left, a backslash taking the character after it, it holds no double
\* quote and no line terminator, and no backslash is its last character
RECURSIVE quotable(_)
quotable(text) ==
  IF text = <<>> THEN TRUE
  ELSE IF text[1] = "\\" THEN Len(text) >= 2 /\ quotable(SubSeq(text, 3, Len(text)))
  ELSE text[1] \notin {"\""} \cup LineTerminators /\ quotable(Tail(text))

\* the source text holds a string literal that its closing quote does not end
RECURSIVE unterminated(_)
unterminated(e) ==
  \/ e.op = "string" /\ ~ quotable(e.text)
  \/ \E i \in 1..Len(e.args) : unterminated(e.args[i])

\* the source text does not parse as an expression
RECURSIVE malformed(_)
malformed(e) ==
  \/ e.op = "fromCharCode" /\ e.text # <<>>
  \/ \E i \in 1..Len(e.args) : malformed(e.args[i])

\* the values of randRange(min,max)
randRangeSet(e) == {randRange(e.min, e.max, w) : w \in EntropyWords}

RECURSIVE evalSet(_)
RECURSIVE evalAll(_)
RECURSIVE pickSet(_, _)

\* the joined outcomes of the elements of an array, evaluated left to right
evalAll(elems) ==
  IF elems = <<>> THEN {Ok(<<>>)}
  ELSE catSets({joined(o) : o \in evalSet(Head(elems))}, evalAll(Tail(elems)))

\* sample([e1,...]): every element is evaluated, then one value is picked;
\* i is the zero-based index picked
pickSet(elems, i) ==
  LET faults == {o \in UNION {evalSet(elems[k]) : k \in 1..Len(elems)} : ~ o.ok}
      values == IF inside(elems, i)
                THEN {o \in evalSet(elems[i + 1]) : o.ok}
                ELSE {Undef}
  IN  IF \A k \in 1..Len(elems) : hasOk(evalSet(elems[k]))
      THEN faults \cup values
      ELSE faults

evalSet(e) ==
  CASE e.op = "string" -> {Ok(unescape(e.text))}
    [] e.op = "toString" -> {Ok(toString(v)) : v \in randRangeSet(e.args[1])}
    [] e.op = "fromCharCode" -> {Ok(<<fromCharCode(v)>>) : v \in randRangeSet(e.args[1])}
    [] e.op = "sample" ->
         IF e.args[1].op = "string"
         THEN {charOutcome(sample(unescape(e.args[1].text), w)) : w \in EntropyWords}
         ELSE UNION {pickSet(e.args[1].args, sampleIndex(e.args[1].args, w)) :
                       w \in EntropyWords}
    [] e.op = "join" -> evalAll(e.args[1].args)
    [] e.op = "repeat" ->
         IF e.n < 0 THEN {Fault("Invalid array length")}
         ELSE repeatSet(evalSet(e.args[1]), e.n)

\* eval(compiled)
eval(e) ==
  IF unterminated(e) THEN {Fault("Invalid or unexpected token")}
  ELSE IF malformed(e) THEN {Fault("Unexpected token ')'")}
  ELSE evalSet(e)

(***************************************************************************)
(* parseRepl.  The reply is the pair [text, succeeded]; on success the     *)
(* text is the compiled source followed by `text`, on failure `text`       *)
(* alone.  A message is one element of the text.                           *)
(***************************************************************************)
NoSource == Expr("none")
NoTree == TreeNode("none")

\* " ".repeat(n): the empty text when n is NaN or below 1
RECURSIVE spaces(_)
spaces(n) == IF n = NaN \/ n <= 0 THEN <<>> ELSE <<" ">> \o spaces(n - 1)

\* the indent without the width of the prompt: ex.index
arrowIndentBare(err) == err.index

\* ex.index + 4
arrowIndent(err) == IF err.index = NaN THEN NaN ELSE err.index + 4

\* the catch branch of parseRepl
caught(err, cp) ==
  LET arrow == IF cp = "genpass.js"
               THEN spaces(arrowIndent(err)) \o <<"^">>
               ELSE IF err.kind = "ParseError"
                    THEN spaces(arrowIndent(err)) \o <<"^", "\n">>
                    ELSE <<>>
  IN  [source |-> NoSource,
       text |-> IF cp = "genpass.js"
                THEN arrow \o <<"\n", err.message>>
                ELSE arrow \o <<err.message>>,
       succeeded |-> FALSE]

\* '\n' + output
resultText(o) ==
  <<"\n">> \o (IF ~ o.ok THEN <<o.message>>
               ELSE IF o.undef THEN appended(Undefined)
               ELSE o.text)

\* the try branch of parseRepl after a successful parse, for the outcome o
\* of eval(compiled)
evaluated(root, o, cp) ==
  IF cp = "genpass.js" /\ ~ o.ok
  THEN caught(TypeError(o.message), cp)
  ELSE [source |-> compile(root, cp), text |-> resultText(o), succeeded |-> TRUE]

(***************************************************************************)
(* The lines read: every concatenation of at most MaxFrags fragments, and  *)
(* the example patterns of the source's comments and of the specification. *)
(***************************************************************************)
Fragments ==
  { <<"a">>, <<"#">>, <<".">>, <<"(">>, <<")">>, <<"{">>, <<"}">>,
    <<"<", "2", ">">>, <<"<", "0", ">">>, <<"[", "a", "b", "]">>,
    <<"\"", "a", "\"">>, <<":", "1", "-", "3", ";">> }

RECURSIVE Concatenations(_)
Concatenations(n) ==
  IF n = 0 THEN {<<>>}
  ELSE LET shorter == Concatenations(n - 1)
       IN  shorter \cup {s \o f : s \in shorter, f \in Fragments}

Examples ==
  { <<"a", "A", "#", "@", "$">>,
    <<"[", "a", "b", "c", "]", "<", "3", ">">>,
    <<":", "1", "-", "5", ":", ":", "a", "-", "c", ":">>,
    <<"(", "a", ")", "<", "2", ">", "{", "A", "#", "}">>,
    <<"\"", "a", "b", "c", "\"">>,
    <<":", "1", "-", "5", ";">>,
    <<":", "a", "-", "c", ";">>,
    <<"(", "a", "b", ")">>,
    <<"{", "a", "#", "}">>,
    <<"\"", "u", "n", "t">>,
    <<"<", "x", ">">>,
    <<"\"", "a", "\\", "\"", "b", "\"">>,
    <<":", "a", ";">>,
    <<":", ";">>,
    <<":", "5", "-", "1", ";">>,
    <<":", "9", "-", "1", "0", ";">>,
    <<"a", "<", "-", "1", ">">>,
    <<"a", "(", "#", "<", "2", ">", ")">>,
    <<":", "1", "-", "2", ":", "a", "-", "b", ";">>,
    <<"\"", "a", "\\">>,
    <<"\"", "a", "\\", "\"">>,
    <<"[", "a", "b">>,
    <<"[", "a", "b", "\\">>,
    <<"<", "2", "\\">>,
    <<"\"", "\\">>,
    <<"\"", "\\", "\"">>,
    <<"\"", "\\", "\"", "\"">>,
    <<"<", "2">>,
    <<":", "1", "-", "3">>,
    <<":", "1", "-", "3", ":", "a">>,
    <<"a", " ", "b">>,
    <<"\"", "a", "\n", "b", "\"">>,
    <<"\"", "a", "\\", "\\", "\\", "\"", "b", "\"">>,
    <<"[", "\\", "\\", "\"", "a", "]">>,
    <<"(", "x", ")", "a">>,
    <<"{", "]", ">", ";", "-", "\\", "a", "}">>,
    <<"[", "a", "\\", "]", "\\", "\\", "]">>,
    <<":", "\\", ":", "-", "\\", ";", ";">>,
    <<"(", "a", "#", ".", ")">>,
    <<"(", "\"", "a", "\"", "\"", "b", "\"", ")">>,
    <<"(", "\"", "a", "\"", "#", ")", "<", "2", ">">> }

Lines == Concatenations(MaxFrags) \cup Examples

(***************************************************************************)
(* The state machine of a REPL turn.                                       *)
(***************************************************************************)
NoDraw == [fn |-> "none", min |-> 0, max |-> 0, word |-> <<0, 0>>,
           value |-> 0, picked |-> Undefined]

parser == [input |-> input, current |-> current,
           contextStack |-> contextStack, error |-> error]

setParser(p) ==
  /\ input' = p.input
  /\ current' = p.current
  /\ contextStack' = p.contextStack
  /\ error' = p.error

\* window.tinyConsole as the page creates it, with the empty line of the
\* first prompt; submitted lists the lines handed over with Enter, the
\* latest first
tinyConsole ==
  [cachedLine |-> FALSE, clonedLine |-> -1, inputs |-> <<>>,
   textContent |-> <<>>, submitted |-> <<>>]

Init ==
  /\ copy \in Copies
  /\ phase = "prompt"
  /\ input = <<>>
  /\ current = 0
  /\ contextStack = <<ParseContext(Undefined, <<TRUE>>)>>
  /\ error = NoError
  /\ tree = NoTree
  /\ generated = <<>>
  /\ reply = <<>>
  /\ draw = NoDraw
  /\ previous = "none"
  /\ console = tinyConsole

\* nodeRepl / browserRepl hand a line to parseRepl, which starts
\* new Parser().parse(str)
ReadLine ==
  /\ phase = "prompt"
  /\ \E str \in Lines : setParser(newParser(str))
  /\ phase' = "parsing"
  /\ UNCHANGED <<copy, tree, generated, reply, draw, previous, console>>

\* one iteration of the while loop of Parser.parse
ParseToken ==
  /\ phase = "parsing"
  /\ current < Len(input)
  /\ LET p == parseToken(parser, copy)
     IN  /\ setParser(p)
         /\ phase' = IF p.error.kind = "none" THEN "parsing" ELSE "failed"
  /\ UNCHANGED <<copy, tree, generated, reply, draw, previous, console>>

\* the end of Parser.parse
ParseEnd ==
  /\ phase = "parsing"
  /\ current >= Len(input)
  /\ LET p == parseEnd(parser)
     IN  /\ setParser(p)
         /\ phase' = IF p.error.kind = "none" THEN "parsed" ELSE "failed"
         /\ tree' = IF p.error.kind = "none"
                    THEN RootNode(p.contextStack[1].children) ELSE NoTree
  /\ UNCHANGED <<copy, generated, reply, draw, previous, console>>

\* parseRepl after parse returned: compile, eval, reply
Evaluate ==
  /\ phase = "parsed"
  /\ \E o \in eval(compile(tree, copy)) : reply' = <<evaluated(tree, o, copy)>>
  /\ phase' = "replied"
  /\ UNCHANGED <<copy, input, current, contextStack, error, tree, generated, draw, previous, console>>

\* parseRepl after parse threw
Report ==
  /\ phase = "failed"
  /\ reply' = <<caught(error, copy)>>
  /\ phase' = "replied"
  /\ UNCHANGED <<copy, input, current, contextStack, error, tree, generated, draw, previous, console>>

\* a caller generates from the tree directly: output.process()
Process ==
  /\ phase = "parsed"
  /\ \E o \in processSet(tree) : generated' = <<o>>
  /\ phase' = "processed"
  /\ UNCHANGED <<copy, input, current, contextStack, error, tree, reply, draw, previous, console>>

\* the turn is over: the reply is printed, the Parser object and the tree
\* are dropped, and the REPL asks for the next line
Prompt ==
  /\ phase \in {"replied", "processed"}
  /\ setParser(newParser(<<>>))
  /\ phase' = "prompt"
  /\ tree' = NoTree
  /\ generated' = <<>>
  /\ reply' = <<>>
  /\ UNCHANGED <<copy, draw, previous, console>>

Next == ReadLine \/ ParseToken \/ ParseEnd \/ Evaluate \/ Report \/ Process \/ Prompt

Spec == Init /\ [][Next]_vars

(***************************************************************************)
(* Turn after turn.  Here the fields that the Parser of the turn before    *)
(* held are left as they were when the next line is read, so that what     *)
(* parse() does with them shows, and the way the turn ended is recorded.   *)
(***************************************************************************)
\* the lines read in this specification
TurnLines == Examples

\* how the turn that has just ended went
turnOutcome ==
  IF phase = "processed" THEN "generated"
  ELSE IF reply[1].succeeded THEN "succeeded"
  ELSE IF tree = NoTree THEN "parse fault"
  ELSE "evaluation fault"

\* nodeRepl calls itself / the page opens a new prompt: parseRepl is called
\* with the next line
ReadTurnLine ==
  /\ phase = "prompt"
  /\ \E str \in TurnLines : setParser(newParser(str))
  /\ phase' = "parsing"
  /\ UNCHANGED <<copy, tree, generated, reply, draw, previous, console>>

\* the reply is printed and the next prompt is shown
NextTurn ==
  /\ phase \in {"replied", "processed"}
  /\ phase' = "prompt"
  /\ previous' = turnOutcome
  /\ tree' = NoTree
  /\ generated' = <<>>
  /\ reply' = <<>>
  /\ UNCHANGED <<copy, input, current, contextStack, error, draw, console>>

NextTurns ==
  ReadTurnLine \/ ParseToken \/ ParseEnd \/ Evaluate \/ Report \/ Process \/ NextTurn

SpecTurns == Init /\ [][NextTurns]_vars

(***************************************************************************)
(* The browser terminal: the keydown listener of the prompt's editable     *)
(* span.  console holds the fields of window.tinyConsole and the text of   *)
(* the span of the current prompt.                                         *)
(***************************************************************************)
\* the texts a user leaves in the span by typing or by a suggestion button
TypedTexts == {<<>>, <<" ">>, <<"a">>, <<"#">>}

\* String.prototype.trim() on the texts typed: blanks at both ends go
RECURSIVE trim(_)
trim(text) ==
  IF text # <<>> /\ text[Len(text)] = " "
  THEN trim(SubSeq(text, 1, Len(text) - 1))
  ELSE trimStart(text)

\* a % n of JavaScript: the result has the sign of a (and -0 is 0)
rem(a, n) == IF a >= 0 THEN a % n ELSE 0 - ((0 - a) % n)

\* array[i], zero-based; assigning undefined to textContent leaves no text
at(array, i) == IF i >= 0 /\ i < Len(array) THEN array[i + 1] ELSE <<>>

\* parseRepl(str) as the line callback of browserRepl runs it: the replies
\* it can return
parseRepl(str, cp) ==
  LET p    == parse(newParser(str), cp)
      root == RootNode(p.contextStack[1].children)
  IN  IF p.error.kind # "none" THEN {caught(p.error, cp)}
      ELSE {evaluated(root, o, cp) : o \in eval(compile(root, cp))}

\* the user edits the text of the span
Type ==
  /\ \E text \in TypedTexts : console' = [console EXCEPT !.textContent = text]
  /\ UNCHANGED <<copy, phase, input, current, contextStack, error, tree, generated,
                 reply, draw, previous>>

\* case 'ArrowUp'
ArrowUp ==
  /\ (console.clonedLine < 0 /\ Len(trim(console.textContent)) > 0) =>
       Len(console.inputs) < MaxInputs
  /\ IF Len(console.inputs) < 1 THEN UNCHANGED console
     ELSE LET caches == console.clonedLine < 0 /\ Len(trim(console.textContent)) > 0
              inputs == IF caches THEN <<console.textContent>> \o console.inputs
                        ELSE console.inputs
              cloned == rem((IF caches THEN 0 ELSE console.clonedLine) + 1, Len(inputs))
          IN  console' = [console EXCEPT !.inputs = inputs,
                                         !.cachedLine = caches \/ @,
                                         !.clonedLine = cloned,
                                         !.textContent = at(inputs, cloned)]
  /\ UNCHANGED <<copy, phase, input, current, contextStack, error, tree, generated,
                 reply, draw, previous>>

\* case 'ArrowDown'
ArrowDown ==
  /\ IF Len(console.inputs) < 1 THEN UNCHANGED console
     ELSE LET cloned == rem(console.clonedLine - 1 + Len(console.inputs),
                            Len(console.inputs))
          IN  console' = [console EXCEPT !.clonedLine = cloned,
                                         !.textContent = at(console.inputs, cloned)]
  /\ UNCHANGED <<copy, phase, input, current, contextStack, error, tree, generated,
                 reply, draw, previous>>

\* case 'Escape'
Escape ==
  /\ console' = [console EXCEPT !.textContent = <<>>, !.clonedLine = -1]
  /\ UNCHANGED <<copy, phase, input, current, contextStack, error, tree, generated,
                 reply, draw, previous>>

\* Array.prototype.shift()
shift(array) == IF array = <<>> THEN <<>> ELSE Tail(array)

\* case 'Enter': the history is updated, a new prompt with an empty span is
\* made and the line is handed to the callback of browserRepl, which writes
\* the reply of parseRepl
Enter ==
  /\ Len(console.submitted) < MaxEnters
  /\ LET text   == console.textContent
         cloned == IF console.cachedLine THEN console.clonedLine - 1
                   ELSE console.clonedLine
         inputs == IF console.cachedLine THEN shift(console.inputs)
                   ELSE console.inputs
     IN  /\ console' =
              [cachedLine |-> FALSE,
               clonedLine |-> -1,
               inputs |-> IF Len(trim(text)) > 0 /\ cloned # 0
                          THEN <<text>> \o inputs ELSE inputs,
               textContent |-> <<>>,
               submitted |-> <<text>> \o console.submitted]
         /\ \E r \in parseRepl(text, copy) : reply' = <<r>>
  /\ UNCHANGED <<copy, phase, input, current, contextStack, error, tree, generated,
                 draw, previous>>

keyListener == ArrowUp \/ ArrowDown \/ Escape \/ Enter

NextConsole == Type \/ keyListener

SpecConsole == Init /\ [][NextConsole]_vars

\* a step of a turn that is under way, told by what it does to the phase
\* and to the position: parse moves on or ends, the reply is computed
TurnStep ==
  /\ phase \in {"parsing", "parsed", "failed"}
  /\ phase' \in {"parsing", "parsed", "failed", "replied", "processed"}
  /\ current' \in current..(Len(input) + 2)

\* parseRepl is synchronous code: from the call to the return nothing waits,
\* so a turn that is under way takes its next step
SpecLive == Spec /\ WF_<<phase, current>>(TurnStep)

(***************************************************************************)
(* The random source on its own: direct calls of randRange and sample.     *)
(* The words drawn are those whose limbs lie at the edges and the middle   *)
(* of the 16-bit range, 0 and 0xffffffff among them.                       *)
(***************************************************************************)
LimbEdges == {0, 1, LimbMax \div 2, LimbMax \div 2 + 1, LimbMax - 1, LimbMax}
RandomWords == LimbEdges \X LimbEdges

InitRandom ==
  /\ Init
  /\ copy = "part_001"

\* randRange(min, max)
DrawRandRange ==
  /\ \E min \in 0..MaxRange, max \in 0..MaxRange, word \in RandomWords :
       draw' = [fn |-> "randRange", min |-> min, max |-> max, word |-> word,
                value |-> randRange(min, max, word), picked |-> Undefined]
  /\ UNCHANGED <<copy, phase, input, current, contextStack, error, tree, generated, reply, previous, console>>

\* sample(text) on the first n letters
DrawSample ==
  /\ \E n \in 0..MaxRange, word \in RandomWords :
       LET text == SubSeq(LowerAlphabet, 1, n)
       IN  draw' = [fn |-> "sample", min |-> 0, max |-> n, word |-> word,
                    value |-> sampleIndex(text, word), picked |-> sample(text, word)]
  /\ UNCHANGED <<copy, phase, input, current, contextStack, error, tree, generated, reply, previous, console>>

NextRandom == DrawRandRange \/ DrawSample

SpecRandom == InitRandom /\ [][NextRandom]_vars

(***************************************************************************)
(* Properties.                                                             *)
(***************************************************************************)
\* every node of the tree under `node`, the node included, has a count of
\* at least 1
RECURSIVE countsPositive(_)
countsPositive(node) ==
  /\ node.count >= 1
  /\ \A i \in 1..Len(node.children) : countsPositive(node.children[i])

\* the nodes held by the frames of the context stack
frameNodes ==
  UNION {{contextStack[f].children[i] : i \in 1..Len(contextStack[f].children)} :
           f \in 1..Len(contextStack)}

\* C1: whatever the input, parse ends by returning a RootNode or by throwing
\* a ParseError that carries a message and a zero-based index; no other kind
\* of exception escapes it.
C1_OnlyParseErrorsEscape ==
  /\ phase = "parsed" => tree.type = "RootNode"
  /\ phase = "failed" =>
       /\ error.kind = "ParseError"
       /\ error.index >= 0

\* C2: randRange(min, max) with max > min returns an integer i with
\* min <= i < max for every entropy word, never max, so that sample on a
\* non-empty collection returns one of its elements.
C2_RandRangeBelowMax ==
  (draw.fn # "none" /\ draw.max > draw.min) =>
    /\ draw.min <= draw.value
    /\ draw.value < draw.max
    /\ draw.fn = "sample" => draw.picked # Undefined

\* C3: generating from a tree that parse returned never calls randRange with
\* max <= min (no empty sample set, no empty sampled group, no range with
\* start above end, no missing bound).
C3_NoCallWithEmptyRange ==
  phase = "parsed" =>
    \A call \in processCalls(tree) :
      call[1] # NaN /\ call[2] # NaN /\ call[2] > call[1]

\* C4: for every tree that parse returned, the outcomes the lowered source
\* can evaluate to are exactly the outcomes process() can produce.
C4_LoweredEqualsDirect ==
  phase = "parsed" => eval(compile(tree, copy)) = processSet(tree)

\* C5: every node of every tree that parse returned, and every node held by
\* the parser on the way, has a repeat count of at least 1.
C5_CountAtLeastOne ==
  /\ \A node \in frameNodes : countsPositive(node)
  /\ phase = "parsed" => countsPositive(tree)

\* the parser is about to read a repeat modifier
atModifier == phase = "parsing" /\ charAt(input, current) = "<"

\* the number written in the modifier that starts at the current position
modifierNumber == parseInt(consumeUntil([parser EXCEPT !.current = @ + 1], <<">">>).output)

\* C6: a <n> modifier sets the repeat count of the most recently pushed node
\* of the innermost open frame to n and leaves every other node, those of
\* the enclosing frames included, as it was.
C6_ModifierSetsLastSibling ==
  [][(atModifier /\ phase' = "parsing") =>
       LET top == Len(contextStack)
           k   == Len(contextStack[top].children)
       IN  /\ k >= 1
           /\ contextStack' =
                [contextStack EXCEPT ![top].children[k].count = modifierNumber]]_vars

\* C7: a <n> modifier met while the innermost frame holds no node makes
\* parse fail with a syntax fault and changes no repeat count.
C7_ModifierWithoutSiblingFaults ==
  [][(atModifier /\ contextStack[Len(contextStack)].children = <<>>) =>
       /\ phase' = "failed"
       /\ error'.kind = "ParseError"
       /\ contextStack' = contextStack]_vars

\* the lengths of the texts process() can return for the tree
outputLengths(node) == {Len(o.text) : o \in {x \in processSet(node) : x.ok}}

RECURSIVE fixedShape(_)
fixedShape(node) ==
  \/ node.type \in {"LiteralNode", "AnyNode", "AsciiRangeNode"}
  \/ /\ node.type \in GroupTypes
     /\ node.sequential
     /\ \A i \in 1..Len(node.children) : fixedShape(node.children[i])

C9_SuccessfulParseRepliesTrue ==
  (phase = "replied" /\ tree # NoTree) =>
    /\ reply[1].succeeded
    /\ reply[1].source = compile(tree, copy)
    /\ \E o \in eval(compile(tree, copy)) : reply[1].text = resultText(o)

\* C10 as stated: when parse fails with a fault at index k, parseRepl returns
\* succeeded = false and a text that is k spaces, a caret, a newline and the
\* fault message.
C10_CaretAtIndex ==
  (phase = "replied" /\ error.kind = "ParseError") =>
    /\ ~ reply[1].succeeded
    /\ reply[1].text = spaces(error.index) \o <<"^", "\n", error.message>>

\* C10 amended: when parse fails with a ParseError at index k, parseRepl
\* returns succeeded = false and a text that is k + 4 spaces (the width of
\* the prompt added to the index), a caret, a newline and the fault message.
C10_CaretAtIndexPlusPrompt ==
  (phase = "replied" /\ error.kind = "ParseError") =>
    /\ ~ reply[1].succeeded
    /\ reply[1].source = NoSource
    /\ reply[1].text = spaces(error.index + 4) \o <<"^", "\n", error.message>>

\* a parse fault past the first character has been reported
C10_Witness ==
  /\ phase = "replied"
  /\ error.kind = "ParseError"
  /\ error.index > 0
  /\ ~ reply[1].succeeded

\* the close token of a group frame: ")" for a sequential group, "}" for a
\* sampled one
closeToken(context) == IF context.instantiationArgs = <<TRUE>> THEN ")" ELSE "}"

\* C11: at the end of the input parse returns a RootNode exactly when only
\* the outermost frame is open, its children being the root's children; with
\* a ( or { frame still open it throws a ParseError that names the close
\* token of the innermost open frame, its index is the length of the input,
\* and no tree is returned.
C11_EndOfInput ==
  /\ phase = "parsed" => Len(contextStack) = 1
  /\ [][(phase = "parsing" /\ current >= Len(input)) =>
          IF Len(contextStack) = 1
          THEN /\ phase' = "parsed"
               /\ tree' = RootNode(contextStack[1].children)
               /\ error' = NoError
          ELSE /\ phase' = "failed"
               /\ tree' = NoTree
               /\ error' = ParseError("Expected '"
                                        \o closeToken(contextStack[Len(contextStack)])
                                        \o "' but got EOF", Len(input))]_vars

\* the input ended inside a sampled group nested in a sequential group
C11_Witness ==
  /\ phase = "failed"
  /\ current = Len(input)
  /\ Len(contextStack) = 3
  /\ contextStack[2].endToken = ")"
  /\ contextStack[3].endToken = "}"
  /\ error.kind = "ParseError"
  /\ error.index = Len(input)
  /\ tree = NoTree

\* the terminators of the scan that the token opens
scanTerminators(token) ==
  CASE token = "\"" -> {"\""}
    [] token = "["  -> {"]"}
    [] token = "<"  -> {">"}
    [] token = ":"  -> {":", ";"}

\* the message that names them
scanMessage(token) ==
  CASE token = "\"" -> "Expected  '\"' but got EOF"
    [] token = "["  -> "Expected  ']' but got EOF"
    [] token = "<"  -> "Expected  '>' but got EOF"
    [] token = ":"  -> "Expected  one of (':', ';') but got EOF"

\* the parser is about to read a token that opens a scan
atScan == phase = "parsing" /\ charAt(input, current) \in {"\"", "[", "<", ":"}

\* the zero-based position of the first unescaped terminator at or after
\* position i, or -1 when the input ends before one is met
RECURSIVE scanEnd(_, _, _)
scanEnd(inp, i, ends) ==
  IF i >= Len(inp) THEN -1
  ELSE IF inp[i + 1] = "\\" THEN scanEnd(inp, i + 2, ends)
  ELSE IF inp[i + 1] \in ends THEN i
  ELSE scanEnd(inp, i + 1, ends)

\* C12: when the input ends while the scan of a literal, a sample set, a
\* repeat modifier or a range body is looking for its terminator, parse
\* throws a ParseError whose message names the terminator(s) expected and
\* whose index is the length of the input, whatever the last characters are.
C12_EofIndexIsLength ==
  [][(atScan /\ scanEnd(input, current + 1, scanTerminators(charAt(input, current))) = -1) =>
       /\ phase' = "failed"
       /\ error' = ParseError(scanMessage(charAt(input, current)), Len(input))]_vars

\* the characters of the input from position i up to position j (zero-based,
\* j excluded), every backslash dropped and the character after it kept
RECURSIVE plainText(_, _, _)
plainText(inp, i, j) ==
  IF i >= j THEN <<>>
  ELSE IF inp[i + 1] = "\\" THEN <<inp[i + 2]>> \o plainText(inp, i + 2, j)
  ELSE <<inp[i + 1]>> \o plainText(inp, i + 1, j)

\* the node that a scan of the given text pushes: a literal, a sample set,
\* or the character range of a one-segment range block
scannedNode(token, text) ==
  CASE token = "\"" -> LiteralNode(text)
    [] token = "["  -> SampleNode(text)
    [] token = ":"  -> AsciiRangeNode(<<text[1]>>, <<text[3]>>)

\* C13: inside a scan a backslash followed by a character c adds exactly c to
\* the text and never ends the scan, even when c is a terminator; the scan
\* ends at the first unescaped terminator, which is not part of the text.
\* (Seen on the node pushed by a literal, a sample set and a range block of
\* one segment x-y between two non-numeric characters.)
C13_EscapedCharTakenVerbatim ==
  [][LET token == charAt(input, current)
         stop  == scanEnd(input, current + 1, scanTerminators(token))
         text  == plainText(input, current + 1, stop)
     IN  (/\ atScan
          /\ stop >= 0
          /\ \/ token \in {"\"", "["}
             \/ /\ token = ":"
                /\ input[stop + 1] = ";"
                /\ Len(text) = 3
                /\ text[2] = "-"
                /\ ~ IsDigit(text[1]) /\ text[1] \notin {" ", "-"}
                /\ text[3] # "-") =>
            /\ phase' = "parsing"
            /\ current' = stop + 1
            /\ contextStack' =
                 [contextStack EXCEPT ![Len(contextStack)].children =
                                         Append(@, scannedNode(token, text))]]_vars

\* a scan that met an escaped terminator has pushed its node: the text of
\* the node holds the terminator
C13_Witness ==
  /\ phase = "parsing"
  /\ \E node \in frameNodes :
       \/ node.type = "LiteralNode" /\ \E i \in 1..Len(node.literal) : node.literal[i] = "\""
       \/ node.type = "SampleNode" /\ \E i \in 1..Len(node.sampleSet) : node.sampleSet[i] = "]"
       \/ /\ node.type = "AsciiRangeNode"
          /\ node.start = charCodeAt(<<":">>)
          /\ node.end = charCodeAt(<<";">>) + 1

\* the node last pushed on the innermost frame in the next state
pushedNode ==
  LET top == contextStack'[Len(contextStack')]
  IN  top.children[Len(top.children)]

\* C14: a range block of two or more segments pushes a group whose
\* generated output is the concatenation, in segment order, of one output
\* of every segment.
C14_RangeBlockConcatenates ==
  [][(/\ phase = "parsing"
      /\ charAt(input, current) = ":"
      /\ phase' = "parsing"
      /\ pushedNode.type = "GroupNode") =>
        /\ Len(pushedNode.children) >= 2
        /\ processSet(pushedNode) = processAll(pushedNode.children)]_vars

\* every text made of n texts of T, one after the other
RECURSIVE nFold(_, _)
nFold(T, n) ==
  IF n = 0 THEN {<<>>} ELSE {a \o b : a \in T, b \in nFold(T, n - 1)}

\* the texts among the outcomes
okTexts(S) == {o.text : o \in {x \in S : x.ok}}

\* every text made of one full output of each child, first child first
RECURSIVE concatAll(_)
concatAll(children) ==
  IF children = <<>> THEN {<<>>}
  ELSE {a \o b : a \in okTexts(processSet(Head(children))), b \in concatAll(Tail(children))}

\* the nodes of the tree under `node`, the node included
RECURSIVE nodesOf(_)
nodesOf(node) ==
  {node} \cup UNION {nodesOf(node.children[i]) : i \in 1..Len(node.children)}

\* the single-character tokens and the node each one stands for
AtomTokens == {".", "a", "A", "#", "@", "$"}
atomNode(c) ==
  CASE c = "." -> AnyNode
    [] c = "a" -> AlphaNode(FALSE)
    [] c = "A" -> AlphaNode(TRUE)
    [] c = "#" -> NumericNode
    [] c = "@" -> SymbolNode
    [] c = "$" -> BasicSymbolNode

\* the text is made of single-character tokens only
atomsOnly(text) == \A i \in 1..Len(text) : text[i] \in AtomTokens

\* C15: a ( ) group generates the concatenation of the full repeated output
\* of each child, the children standing in the order in which the pattern
\* names them; the root does the same for the top-level nodes.
C15_SequentialConcatenates ==
  /\ phase = "parsed" =>
       /\ \A node \in nodesOf(tree) :
            (node.type \in GroupTypes /\ node.sequential) =>
               okTexts(generateSet(node)) = concatAll(node.children)
       /\ atomsOnly(input) =>
            tree.children = [i \in 1..Len(input) |-> atomNode(input[i])]
       /\ (/\ Len(input) >= 2
           /\ input[1] = "(" /\ input[Len(input)] = ")"
           /\ atomsOnly(SubSeq(input, 2, Len(input) - 1))) =>
            tree.children =
              <<GroupNode([i \in 1..(Len(input) - 2) |-> atomNode(input[i + 1])], TRUE)>>
  /\ (/\ phase = "processed"
      /\ generated[1].ok
      /\ Len(tree.children) = 1
      /\ tree.children[1].type = "GroupNode"
      /\ tree.children[1].sequential
      /\ tree.children[1].count >= 0) =>
       generated[1].text \in
         nFold(concatAll(tree.children[1].children), tree.children[1].count)

\* a pattern of one ( ) group with several children has been generated from
C15_Witness ==
  /\ phase = "processed"
  /\ generated[1].ok
  /\ Len(tree.children) = 1
  /\ tree.children[1].type = "GroupNode"
  /\ tree.children[1].sequential
  /\ Len(tree.children[1].children) >= 2
  /\ tree.children[1].children[1].type # tree.children[1].children[2].type
  /\ Len(generated[1].text) >= 2

\* the pattern (ab) and the pattern ("a""b")
BareGroupPattern == <<"(", "a", "b", ")">>
QuotedGroupPattern == <<"(", "\"", "a", "\"", "\"", "b", "\"", ")">>

\* a sequential group of the literals a and b
TwoLiterals == GroupNode(<<LiteralNode(<<"a">>), LiteralNode(<<"b">>)>>, TRUE)

\* C16 as stated: parsing (ab) yields a sequential group of two literal
\* nodes, and generating from it yields exactly ab every time.
C16_BareGroupIsTwoLiterals ==
  (phase \in {"parsed", "processed"} /\ input = BareGroupPattern) =>
    /\ tree.children = <<TwoLiterals>>
    /\ processSet(tree) = {Ok(<<"a", "b">>)}

\* C16 amended: parsing ("a""b") yields a sequential group of two literal
\* nodes, and generating from it yields exactly ab every time; parsing (ab)
\* yields a sequential group that holds the one lowercase-alpha node of the
\* token a, the character b being no token.
C16_QuotedGroupIsTwoLiterals ==
  /\ (phase \in {"parsed", "processed"} /\ input = QuotedGroupPattern) =>
       /\ tree.children = <<TwoLiterals>>
       /\ processSet(tree) = {Ok(<<"a", "b">>)}
       /\ phase = "processed" => generated = <<Ok(<<"a", "b">>)>>
  /\ (phase \in {"parsed", "processed"} /\ input = BareGroupPattern) =>
       tree.children = <<GroupNode(<<AlphaNode(FALSE)>>, TRUE)>>

\* the pattern ("a""b") has been parsed and generated from
C16_Witness ==
  /\ phase = "processed"
  /\ input = QuotedGroupPattern
  /\ generated[1].text = <<"a", "b">>

\* C17: each generation of a { } group with at least one child yields the
\* full repeated output of exactly one of its children, whatever is drawn:
\* never a fault, never no output.  (Patterns without a range block, whose
\* sampled groups are all written with braces.)
C17_SampledGroupPicksOneChild ==
  (phase \in {"parsed", "processed"} /\ \A i \in 1..Len(input) : input[i] # ":") =>
    \A node \in nodesOf(tree) :
      (/\ node.type = "GroupNode"
       /\ ~ node.sequential
       /\ node.children # <<>>
       /\ \A i \in 1..Len(node.children) :
            \A o \in processSet(node.children[i]) : o.ok) =>
         /\ \A o \in generateSet(node) : o.ok /\ ~ o.undef
         /\ generateSet(node) \subseteq
              UNION {processSet(node.children[i]) : i \in 1..Len(node.children)}

\* the input is one range block of one segment x-y between two characters
oneSegment ==
  /\ Len(input) = 5
  /\ input[1] = ":" /\ input[3] = "-" /\ input[5] = ";"
  /\ input[2] \notin {"\\", ":", ";", "-", " "}
  /\ input[4] \notin {"\\", ":", ";", "-", " "}

\* C18: a single range segment s-e with s <= e generates the values of the
\* inclusive interval [s, e] and nothing outside it: the decimal text of an
\* integer when s is numeric, one character whose code lies between the
\* codes of s and e when it is not.
C18_RangeWithinInterval ==
  (phase \in {"parsed", "processed"} /\ oneSegment) =>
    LET s == input[2]
        e == input[4]
    IN  /\ (IsDigit(s) /\ IsDigit(e) /\ DigitValue(s) <= DigitValue(e)) =>
             /\ tree.children = <<RangeNode(DigitValue(s), DigitValue(e))>>
             /\ processSet(tree) \subseteq
                  {Ok(toString(v)) : v \in DigitValue(s)..DigitValue(e)}
             /\ Ok(toString(DigitValue(s))) \in processSet(tree)
        /\ (~ IsDigit(s) /\ charCodeAt(<<s>>) <= charCodeAt(<<e>>)) =>
             /\ tree.children = <<AsciiRangeNode(<<s>>, <<e>>)>>
             /\ processSet(tree) \subseteq
                  {Ok(<<fromCharCode(v)>>) : v \in charCodeAt(<<s>>)..charCodeAt(<<e>>)}
             /\ Ok(<<s>>) \in processSet(tree)

\* C19: compile() of a node with repeat count 1 is exactly the bare atomic
\* expression of the node, with no wrapper; compile() of a node with repeat
\* count n > 1 wraps the atomic expression so that it is evaluated n times
\* and the results are concatenated.
C19_WrapperOnlyAboveOne ==
  phase \in {"parsed", "processed"} =>
    \A node \in nodesOf(tree) :
      LET single  == compileSingle(node, copy)
          lowered == compile(node, copy)
      IN  /\ node.count = 1 => lowered = single /\ lowered.op # "repeat"
          /\ node.count > 1 =>
               /\ lowered = RepeatCall(node.count, single)
               /\ ~ malformed(single) =>
                    okTexts(evalSet(lowered)) =
                      nFold(okTexts({joined(o) : o \in evalSet(single)}), node.count)

\* C20: a turn over a finite input completes: every step of the parser
\* consumes at least one character, so that parse reaches the end of the
\* input or a fault, and generation from the tree returns (a text or a
\* fault) after finitely many draws.
C20_TurnCompletes ==
  /\ []((phase = "parsing" /\ current < Len(input)) =>
          parseToken(parser, copy).current > current)
  /\ [](phase = "parsed" =>
          processSet(tree) # {} /\ eval(compile(tree, copy)) # {})
  /\ (phase = "parsing") ~> (phase \in {"parsed", "failed"})
  /\ (phase \in {"parsed", "failed"}) ~> (phase \in {"replied", "processed"})

\* a turn over a pattern of several tokens has completed with every
\* character consumed
C20_Witness ==
  /\ phase \in {"replied", "processed"}
  /\ Len(input) >= 5
  /\ current = Len(input)
  /\ tree # NoTree

\* what Parser.parse does with the line alone, from a parser that has never
\* been used
freshParse ==
  parse([input |-> input, current |-> 0,
         contextStack |-> <<ParseContext(Undefined, <<TRUE>>)>>, error |-> NoError], copy)

\* C21: after any turn, ended by a reply that succeeded, by a parse fault or
\* by an evaluation fault, the next line is accepted and processed, and the
\* parse result of a line does not depend on the lines before: parse starts
\* from position 0 and the single outermost frame whatever the parser held,
\* and ends where a parse of the line alone ends.
C21_TurnsAreIndependent ==
  /\ [][(phase = "prompt" /\ phase' = "parsing") =>
          /\ current' = 0
          /\ contextStack' = <<ParseContext(Undefined, <<TRUE>>)>>
          /\ error' = NoError]_vars
  /\ [](phase \in {"parsed", "failed"} =>
          /\ current = freshParse.current
          /\ contextStack = freshParse.contextStack
          /\ error = freshParse.error)
  /\ [](phase \in {"replied", "processed"} => ENABLED NextTurn)
  /\ [](phase = "prompt" => ENABLED ReadTurnLine)

\* a line has been parsed and replied to after a turn that ended in a fault
C21_Witness ==
  /\ previous \in {"parse fault", "evaluation fault"}
  /\ phase = "replied"
  /\ reply[1].succeeded

\* the parser is about to read the close token of the innermost open group
atCloseToken ==
  /\ phase = "parsing"
  /\ current < Len(input)
  /\ Len(contextStack) > 1
  /\ charAt(input, current) = closeToken(contextStack[Len(contextStack)])

\* C22: reading the close token of the current frame pops that frame, the
\* depth of the stack going down by exactly one, and appends to the parent
\* frame, as its last child, a group whose children are the nodes of the
\* popped frame in their order; a ) or } that is not the close token of the
\* innermost open frame pops nothing.
C22_CloseTokenPopsOneFrame ==
  [][LET top   == Len(contextStack)
         frame == contextStack[top]
     IN  /\ atCloseToken =>
               /\ phase' = "parsing"
               /\ current' = current + 1
               /\ Len(contextStack') = top - 1
               /\ contextStack' =
                    [SubSeq(contextStack, 1, top - 1) EXCEPT ![top - 1].children =
                       Append(@, GroupNode(frame.children, frame.endToken = ")"))]
         /\ (/\ phase = "parsing"
             /\ current < Len(input)
             /\ charAt(input, current) \in {")", "}"}
             /\ ~ atCloseToken) =>
               /\ phase' = "parsing"
               /\ contextStack' = contextStack]_vars

\* a group of several nodes has just been closed and handed to its parent
C22_Witness ==
  /\ phase = "parsing"
  /\ current > 0
  /\ input[current] \in {")", "}"}
  /\ LET nodes == contextStack[Len(contextStack)].children
     IN  /\ nodes # <<>>
         /\ nodes[Len(nodes)].type = "GroupNode"
         /\ Len(nodes[Len(nodes)].children) >= 2

\* the number of segments of the range block whose body starts at the
\* zero-based position i, 0 when the input ends before the closing ";"
RECURSIVE segments(_, _)
segments(inp, i) ==
  LET e == scanEnd(inp, i, {":", ";"})
  IN  IF e = -1 THEN 0
      ELSE IF inp[e + 1] = ";" THEN 1
      ELSE IF segments(inp, e + 1) = 0 THEN 0
      ELSE 1 + segments(inp, e + 1)

\* C23: a range block that is read to its ";" leaves the context stack as
\* it was before the block, except that the enclosing frame has gained
\* exactly one child; when the block has exactly one segment that child is
\* the bare Range or AsciiRange node of the segment, not a group around it.
C23_RangeBlockAddsOneChild ==
  [][(/\ phase = "parsing"
      /\ current < Len(input)
      /\ charAt(input, current) = ":"
      /\ phase' = "parsing") =>
        LET top == Len(contextStack)
            n   == segments(input, current + 1)
        IN  /\ n >= 1
            /\ contextStack' =
                 [contextStack EXCEPT ![top].children = Append(@, pushedNode)]
            /\ n = 1 => pushedNode.type \in {"RangeNode", "AsciiRangeNode"}
            /\ n > 1 => /\ pushedNode.type = "GroupNode"
                        /\ Len(pushedNode.children) = n]_vars

\* a range block of one segment has been read inside an open group and its
\* bare node is the last child of that group's frame
C23_Witness ==
  /\ phase = "parsing"
  /\ current > 0
  /\ input[current] = ";"
  /\ Len(contextStack) >= 2
  /\ LET nodes == contextStack[Len(contextStack)].children
     IN  /\ nodes # <<>>
         /\ nodes[Len(nodes)].type \in {"RangeNode", "AsciiRangeNode"}

\* the characters that a case of the switch of parseToken names
DispatchTokens == {".", "a", "A", "#", "@", "$", "\"", "[", "<", ":", "(", "{"}

\* the parser is about to read a character that no case of parseToken takes
atIgnoredToken ==
  /\ phase = "parsing"
  /\ current < Len(input)
  /\ charAt(input, current) \notin DispatchTokens
  /\ charAt(input, current) # currentContext(parser).endToken

\* C24: a character read by parseToken that is neither the close token of
\* the current frame nor a dispatch token only moves the position one
\* character on: the frames of the context stack, their children and every
\* repeat count stay as they are and no fault is raised.
C24_OtherCharacterOnlyAdvances ==
  [][atIgnoredToken =>
       /\ phase' = "parsing"
       /\ current' = current + 1
       /\ contextStack' = contextStack
       /\ error' = NoError]_vars

\* inside an open group that already holds a node, a character that is no
\* token (neither a bracket nor a dispatch token) has just been read
C24_Witness ==
  /\ phase = "parsing"
  /\ current > 1
  /\ \A i \in 1..current : input[i] \notin {"\"", "[", "<", ":"}
  /\ input[current] \notin DispatchTokens \cup {")", "}"}
  /\ Len(contextStack) = 2
  /\ contextStack[2].children # <<>>
  /\ error = NoError

\* the text with a backslash put before each backslash and each double
\* quote and every other character left as it is
RECURSIVE escaped(_)
escaped(text) ==
  IF text = <<>> THEN <<>>
  ELSE (IF text[1] \in {"\\", "\""} THEN <<"\\", text[1]>> ELSE <<text[1]>>)
       \o escaped(Tail(text))

\* the literal or sample-set text of a node and the string literal that the
\* node's lowered code holds
nodeText(node) == IF node.type = "LiteralNode" THEN node.literal ELSE node.sampleSet
emitted(node) ==
  LET e == compileSingle(node, copy)
  IN  IF node.type = "LiteralNode" THEN e ELSE e.args[1]

\* C25: the string literal in the lowered code of a literal or of a sample
\* set is the node's text with exactly its backslashes and double quotes
\* escaped, and reading that double-quoted string back gives the text
\* character for character, whatever characters the text holds.
C25_EscapeRoundTrip ==
  phase = "parsed" =>
    \A node \in {n \in nodesOf(tree) : n.type \in SampleTypes \cup {"LiteralNode"}} :
      /\ emitted(node).op = "string"
      /\ emitted(node).text = escaped(nodeText(node))
      /\ quotable(emitted(node).text)
      /\ unescape(emitted(node).text) = nodeText(node)

\* C26: in every state of a parse the context stack holds at least one
\* frame and its bottom frame is the implicit outermost frame, the
\* sequential frame that has no close token: no input, an unmatched ) or }
\* at top level included, pops it.
C26_OutermostFrameStays ==
  phase \in {"parsing", "parsed", "failed"} =>
    /\ Len(contextStack) >= 1
    /\ contextStack[1].endToken = Undefined
    /\ contextStack[1].instantiationArgs = <<TRUE>>

\* an unmatched ) or } has just been read at top level, after a node
C26_Witness ==
  /\ phase = "parsing"
  /\ current >= 2
  /\ input[current] \in {")", "}"}
  /\ \A i \in 1..current : input[i] \notin {"(", "{", "\"", "[", "<", ":"}
  /\ Len(contextStack) = 1
  /\ contextStack[1].children # <<>>

\* the key just handled was Enter: one more line has been handed over
entered == Len(console'.submitted) = Len(console.submitted) + 1

\* C27: in the browser terminal, once Enter has been handled the command
\* history holds only lines that were handed over with Enter (a draft that
\* ArrowUp cached is gone again), no draft is marked as cached and the
\* history cursor is back at -1, whatever keys came before.
C27_HistoryHoldsSubmittedLines ==
  [][entered =>
       /\ \A i \in 1..Len(console'.inputs) :
            \E j \in 1..Len(console'.submitted) :
              console'.inputs[i] = console'.submitted[j]
       /\ ~ console'.cachedLine
       /\ console'.clonedLine = -1]_vars

====
